---- MODULE Spec2Model ----
(***************************************************************************)
(* Model of the undirected-graph crate (src/src/lib.rs): the Graph type    *)
(* (a Vec of HashSet<usize> adjacency records), its edge mutators and      *)
(* queries, the destructive cycle test is_cyclic, and make_spanning_tree.  *)
(*                                                                         *)
(* A Graph value is a function from 0..n-1 to sets of naturals (the Vec    *)
(* index to the HashSet stored there).  Vec indexing with an index outside *)
(* the domain panics; an operation that can panic returns a record         *)
(* [g |-> graph at the point it stopped, panic |-> BOOLEAN].               *)
(* HashSet iteration order is unspecified: wherever the order can be       *)
(* observed the model chooses the next element nondeterministically.       *)
(***************************************************************************)
EXTENDS Naturals, Integers, FiniteSets, Sequences, TLC

\* Largest node count of a graph the caller builds (specification Spec).
MaxN == 3
\* Largest node count and edge count of a graph handed to
\* make_spanning_tree (SpecTree).
TreeN == 4
TreeEdges == 4
\* Largest node count of the cycle graphs of specification SpecCycle.
CycleN == 6
\* Largest node count and edge count of a graph handed to make_spanning_tree
\* in the specification with fairness (SpecTerm).
TermN == 3
TermEdges == 4
\* Largest number of distinct edges of a graph the caller builds.
MaxEdges == 5

VARIABLES
    nodes,   \* the caller's Graph (Graph.nodes)
    fault,   \* TRUE once a call has panicked (the thread is gone)
    pre,     \* the caller's Graph when the last call started
    last,    \* the last call: [op |-> name, args |-> sequence of arguments]
    ret,     \* the value the last call returned, see Ret (NoRet while none)
    cyc,     \* the frame of the running is_cyclic call (pc = "idle" if none)
    src,     \* make_spanning_tree: the argument g
    h,       \* make_spanning_tree: the result under construction
    todo,    \* make_spanning_tree: the edges of the shuffled Vec not yet taken
    cur,     \* make_spanning_tree: the edge (s, t) of the current iteration
    h0,      \* history: h as it was when the current iteration started
    tpc      \* make_spanning_tree: position

apiVars  == <<nodes, fault, pre, last, ret, cyc>>
treeVars == <<src, h, todo, cur, h0, tpc>>
vars     == <<nodes, fault, pre, last, ret, cyc, src, h, todo, cur, h0, tpc>>

----------------------------------------------------------------------------
(* Graph: construction, queries and mutators *)

Min(a, b) == IF a <= b THEN a ELSE b
Max(a, b) == IF a <= b THEN b ELSE a

\* Mutant of new: the loop `for _ in 0..n` runs once too often.
new_inclusive(n) == [i \in 0..n |-> {}]

\* Graph::new
new(n) == [i \in 0..(n - 1) |-> {}]

\* Graph::size
size(g) == Cardinality(DOMAIN g)

\* Graph::get_neighbours: self.nodes[node].clone(), panics when out of range.
get_neighbours(g, node) ==
    IF node \notin DOMAIN g
    THEN [panic |-> TRUE, value |-> {}]
    ELSE [panic |-> FALSE, value |-> g[node]]

\* Mutant of add_edge: only the first endpoint records the edge.
add_edge_oneway(g, s, t) ==
    IF s \notin DOMAIN g THEN [g |-> g, panic |-> TRUE]
    ELSE [g |-> [g EXCEPT ![s] = @ \cup {t}], panic |-> t \notin DOMAIN g]

\* Graph::add_edge: nodes[s].insert(t) runs (or panics) before nodes[t].insert(s).
add_edge(g, s, t) ==
    IF s \notin DOMAIN g THEN [g |-> g, panic |-> TRUE]
    ELSE LET g1 == [g EXCEPT ![s] = @ \cup {t}]
         IN  IF t \notin DOMAIN g1 THEN [g |-> g1, panic |-> TRUE]
             ELSE [g |-> [g1 EXCEPT ![t] = @ \cup {s}], panic |-> FALSE]

\* Mutant of remove_edge: only the first endpoint forgets the edge.
remove_edge_oneway(g, s, t) ==
    IF s \notin DOMAIN g THEN [g |-> g, panic |-> TRUE]
    ELSE [g |-> [g EXCEPT ![s] = @ \ {t}], panic |-> t \notin DOMAIN g]

\* Mutant of remove_edge: the first endpoint's whole set is cleared.
remove_edge_clear(g, s, t) ==
    IF s \notin DOMAIN g THEN [g |-> g, panic |-> TRUE]
    ELSE LET g1 == [g EXCEPT ![s] = {}]
         IN  IF t \notin DOMAIN g1 THEN [g |-> g1, panic |-> TRUE]
             ELSE [g |-> [g1 EXCEPT ![t] = @ \ {s}], panic |-> FALSE]

\* Graph::remove_edge: nodes[s].remove(&t) runs (or panics) before nodes[t].remove(&s).
remove_edge(g, s, t) ==
    IF s \notin DOMAIN g THEN [g |-> g, panic |-> TRUE]
    ELSE LET g1 == [g EXCEPT ![s] = @ \ {t}]
         IN  IF t \notin DOMAIN g1 THEN [g |-> g1, panic |-> TRUE]
             ELSE [g |-> [g1 EXCEPT ![t] = @ \ {s}], panic |-> FALSE]

\* The for loop of Graph::remove_edges over the part `neighbours` of the
\* snapshot not yet walked: the set of outcomes over every order in which a
\* HashSet can be walked.  The loop stops at the first remove_edge that
\* panics, so with an out-of-range entry in the snapshot the graph left
\* behind depends on the order; with all entries in range there is one
\* outcome.
RECURSIVE remove_each(_, _, _)
remove_each(g, n, neighbours) ==
    IF neighbours = {} THEN {[g |-> g, panic |-> FALSE]}
    ELSE UNION { LET r == remove_edge(g, n, neighbour)
                 IN  IF r.panic THEN {r}
                     ELSE remove_each(r.g, n, neighbours \ {neighbour})
                 : neighbour \in neighbours }

\* Mutant of remove_edges: the loop stops after the first neighbour.
remove_edges_first(g, n) ==
    IF n \notin DOMAIN g THEN {[g |-> g, panic |-> TRUE]}
    ELSE IF g[n] = {} THEN {[g |-> g, panic |-> FALSE]}
    ELSE { remove_edge(g, n, x) : x \in g[n] }

\* Graph::remove_edges: snapshot the neighbour set, then remove each edge;
\* the set of outcomes over every iteration order of the snapshot.
remove_edges(g, n) ==
    LET neighbours == get_neighbours(g, n)
    IN  IF neighbours.panic THEN {[g |-> g, panic |-> TRUE]}
        ELSE remove_each(g, n, neighbours.value)

\* Graph::adjecent: self.nodes[s].contains(&t); only s indexes the Vec.
adjecent(g, s, t) ==
    IF s \notin DOMAIN g
    THEN [panic |-> TRUE, value |-> FALSE]
    ELSE [panic |-> FALSE, value |-> t \in g[s]]

\* Mutant of edges: the pair is stored as (node, adjacent), not canonically.
edges_ordered(g) ==
    UNION { { <<node, adjacent>> : adjacent \in g[node] } : node \in DOMAIN g }

\* Graph::edges
edges(g) ==
    UNION { { <<Min(node, adjacent), Max(node, adjacent)>> : adjacent \in g[node] }
            : node \in DOMAIN g }

\* Graph::count_edges
count_edges(g) == Cardinality(edges(g))

----------------------------------------------------------------------------
(* Graph::is_cyclic as a frame [g, open, visited, node, neighbours, pc,    *)
(* result] advanced one loop step at a time.                               *)
(*   pc = "for"    at the head of `for node in 0..g.size()`                *)
(*   pc = "while"  at the head of `while let Some(current) = open.pop()`   *)
(*   pc = "neigh"  inside `for &n in &neighbours`, neighbours = the part   *)
(*                 of the snapshot not yet iterated                        *)
(*   pc = "done"   returned `result`;  pc = "panic"  an index fault        *)
(* pushes and pops are history: the nodes given to open.push and the nodes *)
(* open.pop has returned, in order, since the call was entered.            *)

Idle ==
    [pc |-> "idle", g |-> <<>>, open |-> <<>>, visited |-> {}, node |-> 0,
     neighbours |-> {}, result |-> FALSE, pushes |-> <<>>, pops |-> <<>>]

\* The frame once it has returned r: the locals are dropped.
Returned(r) == [Idle EXCEPT !.pc = "done", !.result = r]

Panicked == [Idle EXCEPT !.pc = "panic"]

\* Entry of is_cyclic: open is empty, g is a clone of self, visited is empty.
is_cyclic_enter(self) ==
    [pc |-> "for", g |-> self, open |-> <<>>, visited |-> {}, node |-> 0,
     neighbours |-> {}, result |-> FALSE, pushes |-> <<>>, pops |-> <<>>]

\* Mutant of is_cyclic_for_step: the node is pushed whether or not
\* visited.insert(node) found it new.
is_cyclic_for_step_always(c) ==
    IF c.node >= size(c.g) THEN Returned(FALSE)
    ELSE [c EXCEPT !.visited = @ \cup {c.node},
                   !.open = Append(@, c.node),
                   !.pushes = Append(@, c.node),
                   !.pc = "while"]

\* `for node in 0..g.size()` with `if visited.insert(node) { open.push(node)`;
\* falling out of the loop returns false.
is_cyclic_for_step(c) ==
    IF c.node >= size(c.g) THEN Returned(FALSE)
    ELSE IF c.node \notin c.visited
         THEN [c EXCEPT !.visited = @ \cup {c.node},
                        !.open = Append(@, c.node),
                        !.pushes = Append(@, c.node),
                        !.pc = "while"]
         ELSE [c EXCEPT !.node = @ + 1]

\* Mutant of is_cyclic_while_step: g.remove_edges(current) is left out.
is_cyclic_while_step_keep(c) ==
    IF c.open = <<>>
    THEN {[c EXCEPT !.node = @ + 1, !.pc = "for"]}
    ELSE LET current == c.open[Len(c.open)]
             neighbours == get_neighbours(c.g, current)
         IN  IF neighbours.panic THEN {Panicked}
             ELSE {[c EXCEPT !.open = SubSeq(@, 1, Len(@) - 1),
                             !.pops = Append(@, current),
                             !.neighbours = neighbours.value,
                             !.pc = IF neighbours.value = {} THEN "while" ELSE "neigh"]}

\* Mutant of is_cyclic_while_step: the neighbours are read after
\* g.remove_edges(current) instead of before it.
is_cyclic_while_step_late(c) ==
    IF c.open = <<>>
    THEN {[c EXCEPT !.open = <<>>, !.node = @ + 1, !.pc = "for"]}
    ELSE LET current == c.open[Len(c.open)]
         IN  { LET neighbours == get_neighbours(removed.g, current)
               IN  IF neighbours.panic \/ removed.panic THEN Panicked
                   ELSE [c EXCEPT !.open = SubSeq(@, 1, Len(@) - 1),
                                  !.pops = Append(@, current),
                                  !.g = removed.g,
                                  !.neighbours = neighbours.value,
                                  !.pc = IF neighbours.value = {}
                                         THEN "while" ELSE "neigh"]
               : removed \in remove_edges(c.g, current) }

\* `while let Some(current) = open.pop()`: snapshot the neighbours of current
\* in g, then g.remove_edges(current); an empty stack ends the while loop,
\* open.clear() runs and the for loop moves on.  The set of frames the step
\* can lead to, one for each outcome of remove_edges.
is_cyclic_while_step(c) ==
    IF c.open = <<>>
    THEN {[c EXCEPT !.open = <<>>, !.node = @ + 1, !.pc = "for"]}
    ELSE LET current == c.open[Len(c.open)]
             neighbours == get_neighbours(c.g, current)
         IN  IF neighbours.panic THEN {Panicked}
             ELSE { IF removed.panic THEN Panicked
                    ELSE [c EXCEPT !.open = SubSeq(@, 1, Len(@) - 1),
                                   !.pops = Append(@, current),
                                   !.g = removed.g,
                                   !.neighbours = neighbours.value,
                                   !.pc = IF neighbours.value = {}
                                          THEN "while" ELSE "neigh"]
                    : removed \in remove_edges(c.g, current) }

\* Mutant of is_cyclic_neigh_step: visited.contains(&n) is not consulted.
is_cyclic_neigh_step_nocheck(c, n) ==
    [c EXCEPT !.visited = @ \cup {n},
              !.open = Append(@, n),
              !.pushes = Append(@, n),
              !.neighbours = @ \ {n},
              !.pc = IF c.neighbours = {n} THEN "while" ELSE "neigh"]

\* One iteration of `for &n in &neighbours` for the element n.
is_cyclic_neigh_step(c, n) ==
    IF n \in c.visited THEN Returned(TRUE)
    ELSE [c EXCEPT !.visited = @ \cup {n},
                   !.open = Append(@, n),
                   !.pushes = Append(@, n),
                   !.neighbours = @ \ {n},
                   !.pc = IF c.neighbours = {n} THEN "while" ELSE "neigh"]

\* Every frame one step after c, over all iteration orders.
is_cyclic_next(c) ==
    CASE c.pc = "for"   -> {is_cyclic_for_step(c)}
      [] c.pc = "while" -> is_cyclic_while_step(c)
      [] c.pc = "neigh" -> {is_cyclic_neigh_step(c, n) : n \in c.neighbours}
      [] OTHER          -> {}

\* Every way a call that stands at frame c can end, over all iteration
\* orders: [panic |-> FALSE, value |-> the boolean returned] or a panic.
RECURSIVE is_cyclic_from(_)
is_cyclic_from(c) ==
    IF c.pc = "done" THEN {[panic |-> FALSE, value |-> c.result]}
    ELSE IF c.pc = "panic" THEN {[panic |-> TRUE, value |-> FALSE]}
    ELSE UNION { is_cyclic_from(d) : d \in is_cyclic_next(c) }

\* Graph::is_cyclic: the set of outcomes the call can produce on self.
is_cyclic(self) == is_cyclic_from(is_cyclic_enter(self))

\* Graph::is_acyclic: !self.is_cyclic()
is_acyclic(self) ==
    { [panic |-> r.panic, value |-> (~r.panic /\ ~r.value)] : r \in is_cyclic(self) }

----------------------------------------------------------------------------
(* The caller: a Graph built by new(n) and used through the public API.    *)

\* A returned value: `kind` names its type and the field of that type holds
\* it; the other fields keep their defaults.
NoRet == [kind |-> "none", bool |-> FALSE, int |-> 0, set |-> {}, pairs |-> {}]

Ret(kind, v) ==
    CASE kind = "bool"  -> [NoRet EXCEPT !.kind = kind, !.bool = v]
      [] kind = "int"   -> [NoRet EXCEPT !.kind = kind, !.int = v]
      [] kind = "set"   -> [NoRet EXCEPT !.kind = kind, !.set = v]
      [] kind = "pairs" -> [NoRet EXCEPT !.kind = kind, !.pairs = v]

\* Argument values a caller passes; MaxN is out of range for every graph.
Arg == 0..MaxN

NoTree ==
    /\ src = <<>> /\ h = <<>> /\ todo = {} /\ cur = <<>> /\ h0 = <<>> /\ tpc = "off"

Init ==
    /\ \E n \in 0..MaxN :
          /\ nodes = new(n)
          /\ pre = new(n)
          /\ last = [op |-> "new", args |-> <<n>>]
    /\ fault = FALSE
    /\ ret = NoRet
    /\ cyc = Idle
    /\ NoTree

\* A call can start when the thread is alive and no call is running.
Ready == ~fault /\ cyc.pc = "idle" /\ tpc = "off"

\* A query that ran to its end or panicked; the graph is borrowed immutably.
Query(op, args, kind, r) ==
    /\ nodes' = nodes
    /\ fault' = r.panic
    /\ pre' = nodes
    /\ last' = [op |-> op, args |-> args]
    /\ ret' = IF r.panic THEN NoRet ELSE Ret(kind, r.value)
    /\ UNCHANGED <<cyc, src, h, todo, cur, h0, tpc>>

\* A mutator that ran to its end or panicked part-way, leaving r.g behind.
Mutate(op, args, r) ==
    /\ nodes' = r.g
    /\ fault' = r.panic
    /\ pre' = nodes
    /\ last' = [op |-> op, args |-> args]
    /\ ret' = NoRet
    /\ UNCHANGED <<cyc, src, h, todo, cur, h0, tpc>>

GetNeighbours ==
    /\ Ready
    /\ \E node \in Arg : Query("get_neighbours", <<node>>, "set", get_neighbours(nodes, node))

\* The caller adds an edge while the graph stays within MaxEdges edges.
AddEdge ==
    /\ Ready
    /\ \E s \in Arg, t \in Arg :
          LET r == add_edge(nodes, s, t)
          IN  /\ r.panic \/ count_edges(r.g) <= MaxEdges
              /\ Mutate("add_edge", <<s, t>>, r)

RemoveEdge ==
    /\ Ready
    /\ \E s \in Arg, t \in Arg : Mutate("remove_edge", <<s, t>>, remove_edge(nodes, s, t))

RemoveEdges ==
    /\ Ready
    /\ \E n \in Arg : \E r \in remove_edges(nodes, n) : Mutate("remove_edges", <<n>>, r)

Adjecent ==
    /\ Ready
    /\ \E s \in Arg, t \in Arg : Query("adjecent", <<s, t>>, "bool", adjecent(nodes, s, t))

Size ==
    /\ Ready
    /\ Query("size", <<>>, "int", [panic |-> FALSE, value |-> size(nodes)])

Edges ==
    /\ Ready
    /\ Query("edges", <<>>, "pairs", [panic |-> FALSE, value |-> edges(nodes)])

CountEdges ==
    /\ Ready
    /\ Query("count_edges", <<>>, "int", [panic |-> FALSE, value |-> count_edges(nodes)])

\* is_cyclic() is entered on the caller's graph.
IsCyclicCall ==
    /\ Ready
    /\ cyc' = is_cyclic_enter(nodes)
    /\ pre' = nodes
    /\ last' = [op |-> "is_cyclic", args |-> <<>>]
    /\ ret' = NoRet
    /\ UNCHANGED <<nodes, fault, src, h, todo, cur, h0, tpc>>

\* is_acyclic() enters is_cyclic() and negates what it returns.
IsAcyclicCall ==
    /\ Ready
    /\ cyc' = is_cyclic_enter(nodes)
    /\ pre' = nodes
    /\ last' = [op |-> "is_acyclic", args |-> <<>>]
    /\ ret' = NoRet
    /\ UNCHANGED <<nodes, fault, src, h, todo, cur, h0, tpc>>

\* The running call moves to frame d; at "done" it returns to the caller.
Advance(d) ==
    /\ cyc' = IF d.pc \in {"done", "panic"} THEN Idle ELSE d
    /\ fault' = (d.pc = "panic")
    /\ ret' = IF d.pc = "done"
              THEN Ret("bool", IF last.op = "is_acyclic" THEN ~d.result ELSE d.result)
              ELSE ret
    /\ UNCHANGED <<pre, last, src, h, todo, cur, h0, tpc>>

IsCyclicFor ==
    /\ ~fault /\ cyc.pc = "for"
    /\ Advance(is_cyclic_for_step(cyc))
    /\ nodes' = nodes

\* Mutant of IsCyclicWhile: g is the caller's graph itself, not a clone.
IsCyclicWhileAliased ==
    /\ ~fault /\ cyc.pc = "while"
    /\ \E d \in is_cyclic_while_step(cyc) :
          /\ Advance(d)
          /\ nodes' = IF cyc.open = <<>> THEN nodes ELSE d.g

IsCyclicWhile ==
    /\ ~fault /\ cyc.pc = "while"
    /\ \E d \in is_cyclic_while_step(cyc) : Advance(d)
    /\ nodes' = nodes

IsCyclicNeigh ==
    /\ ~fault /\ cyc.pc = "neigh"
    /\ \E n \in cyc.neighbours : Advance(is_cyclic_neigh_step(cyc, n))
    /\ nodes' = nodes

Next ==
    \/ GetNeighbours
    \/ AddEdge
    \/ RemoveEdge
    \/ RemoveEdges
    \/ Adjecent
    \/ Size
    \/ Edges
    \/ CountEdges
    \/ IsCyclicCall
    \/ IsAcyclicCall
    \/ IsCyclicFor
    \/ IsCyclicWhile
    \/ IsCyclicNeigh

Spec == Init /\ [][Next]_vars

----------------------------------------------------------------------------
(* make_spanning_tree(g) for every graph g a caller can have built.        *)

\* The graph on n nodes whose canonical edge set is E.
GraphOf(n, E) ==
    [i \in 0..(n - 1) |->
        {j \in 0..(n - 1) : <<Min(i, j), Max(i, j)>> \in E}]

\* The graphs on n nodes that new(n) and in-range mutator calls produce,
\* with at most TreeEdges edges.
Graphs(n) ==
    { GraphOf(n, E) :
        E \in { F \in SUBSET {p \in (0..(n - 1)) \X (0..(n - 1)) : p[1] <= p[2]} :
                  Cardinality(F) <= TreeEdges } }

NoCaller ==
    /\ nodes = <<>> /\ fault = FALSE /\ pre = <<>>
    /\ last = [op |-> "make_spanning_tree", args |-> <<>>]
    /\ ret = NoRet /\ cyc = Idle

InitTree ==
    /\ NoCaller
    /\ \E n \in 0..TreeN : src \in Graphs(n)
    /\ h = <<>>
    /\ todo = {}
    /\ cur = <<>>
    /\ h0 = <<>>
    /\ tpc = "call"

\* let mut h = Graph::new(g.size()); the edges of g are collected into a Vec
\* and shuffled.  The Vec is kept as the set of its elements not yet taken:
\* taking any of them next is every order a shuffle can produce.
MakeSpanningTreeBegin ==
    /\ tpc = "call"
    /\ h' = new(size(src))
    /\ todo' = edges(src)
    /\ h0' = new(size(src))
    /\ tpc' = "loop"
    /\ UNCHANGED <<src, cur>>
    /\ UNCHANGED apiVars

\* Mutant of MakeSpanningTreeAdd: the loop also drops a second element of
\* the Vec without trying it.
MakeSpanningTreeAddSkip ==
    /\ tpc = "loop"
    /\ \E e \in todo : \E f \in todo :
          LET r == add_edge(h, e[1], e[2])
          IN  /\ h' = r.g
              /\ cur' = e
              /\ todo' = todo \ {e, f}
              /\ tpc' = IF r.panic THEN "panic" ELSE "added"
    /\ h0' = h
    /\ UNCHANGED src
    /\ UNCHANGED apiVars

\* for (s, t) in edges { h.add_edge(s, t);
MakeSpanningTreeAdd ==
    /\ tpc = "loop"
    /\ \E e \in todo :
          LET r == add_edge(h, e[1], e[2])
          IN  /\ h' = r.g
              /\ cur' = e
              /\ todo' = todo \ {e}
              /\ tpc' = IF r.panic THEN "panic" ELSE "added"
    /\ h0' = h
    /\ UNCHANGED src
    /\ UNCHANGED apiVars

\* Mutant of MakeSpanningTreeCheck: the cyclic edge is kept.
MakeSpanningTreeCheckKeep ==
    /\ tpc = "added"
    /\ \E c \in is_cyclic(h) :
          /\ h' = h
          /\ tpc' = IF c.panic THEN "panic" ELSE "loop"
    /\ UNCHANGED <<src, todo, cur, h0>>
    /\ UNCHANGED apiVars

\* Mutant of MakeSpanningTreeCheck: the test is negated.
MakeSpanningTreeCheckInverted ==
    /\ tpc = "added"
    /\ \E c \in is_cyclic(h) :
          LET r == IF ~c.panic /\ ~c.value
                   THEN remove_edge(h, cur[1], cur[2])
                   ELSE [g |-> h, panic |-> FALSE]
          IN  /\ h' = r.g
              /\ tpc' = IF c.panic \/ r.panic THEN "panic" ELSE "loop"
    /\ UNCHANGED <<src, todo, cur, h0>>
    /\ UNCHANGED apiVars

\* Mutant of MakeSpanningTreeCheck: h.remove_edges(s) in place of
\* h.remove_edge(s, t).
MakeSpanningTreeCheckRemoveAll ==
    /\ tpc = "added"
    /\ \E c \in is_cyclic(h) :
          \E r \in IF ~c.panic /\ c.value
                   THEN remove_edges(h, cur[1])
                   ELSE {[g |-> h, panic |-> FALSE]} :
              /\ h' = r.g
              /\ tpc' = IF c.panic \/ r.panic THEN "panic" ELSE "loop"
    /\ UNCHANGED <<src, todo, cur, h0>>
    /\ UNCHANGED apiVars

\* if h.is_cyclic() { h.remove_edge(s, t); } }
MakeSpanningTreeCheck ==
    /\ tpc = "added"
    /\ \E c \in is_cyclic(h) :
          LET r == IF ~c.panic /\ c.value
                   THEN remove_edge(h, cur[1], cur[2])
                   ELSE [g |-> h, panic |-> FALSE]
          IN  /\ h' = r.g
              /\ tpc' = IF c.panic \/ r.panic THEN "panic" ELSE "loop"
    /\ UNCHANGED <<src, todo, cur, h0>>
    /\ UNCHANGED apiVars

\* The loop has consumed the Vec: h is returned.
MakeSpanningTreeReturn ==
    /\ tpc = "loop"
    /\ todo = {}
    /\ tpc' = "done"
    /\ UNCHANGED <<src, h, todo, cur, h0>>
    /\ UNCHANGED apiVars

NextTree ==
    \/ MakeSpanningTreeBegin
    \/ MakeSpanningTreeAdd
    \/ MakeSpanningTreeCheck
    \/ MakeSpanningTreeReturn

SpecTree == InitTree /\ [][NextTree]_vars

----------------------------------------------------------------------------
(* The caller of tests::cycle_is_cyclic: new(n) for n >= 3, the path edges *)
(* (m, m+1) added in order, then the closing edge (n-1, 0); the cycle test *)
(* may be called after any of these calls.                                 *)

InitCycle ==
    /\ \E n \in 3..CycleN :
          /\ nodes = new(n)
          /\ pre = new(n)
          /\ last = [op |-> "new", args |-> <<n>>]
    /\ fault = FALSE
    /\ ret = NoRet
    /\ cyc = Idle
    /\ NoTree

\* g.add_edge(m, m + 1) for the next m of `for m in 0 .. (n - 1)`.
CyclePathEdge ==
    /\ Ready
    /\ LET m == count_edges(nodes)
       IN  /\ m < size(nodes) - 1
           /\ Mutate("add_edge", <<m, m + 1>>, add_edge(nodes, m, m + 1))

\* g.add_edge(n - 1, 0) once the path is complete.
CycleCloseEdge ==
    /\ Ready
    /\ count_edges(nodes) = size(nodes) - 1
    /\ Mutate("add_edge", <<size(nodes) - 1, 0>>, add_edge(nodes, size(nodes) - 1, 0))

NextCycle ==
    \/ CyclePathEdge
    \/ CycleCloseEdge
    \/ IsCyclicCall
    \/ IsAcyclicCall
    \/ IsCyclicFor
    \/ IsCyclicWhile
    \/ IsCyclicNeigh

SpecCycle == InitCycle /\ [][NextCycle]_vars

----------------------------------------------------------------------------
(* Both programs under the scheduling of sequential code: a call that has  *)
(* been entered keeps taking its next step; the caller may stop calling.   *)
(* Every step of is_cyclic changes cyc and every step of                   *)
(* make_spanning_tree changes tpc, which are the subscripts of the         *)
(* fairness conditions.                                                    *)

InitTreeTerm ==
    /\ NoCaller
    /\ \E n \in 0..TermN :
          src \in { g \in Graphs(n) : count_edges(g) <= TermEdges }
    /\ h = <<>>
    /\ todo = {}
    /\ cur = <<>>
    /\ h0 = <<>>
    /\ tpc = "call"

InitTerm == Init \/ InitTreeTerm

IsCyclicStep == IsCyclicFor \/ IsCyclicWhile \/ IsCyclicNeigh

NextTerm == Next \/ NextTree

SpecTerm ==
    /\ InitTerm
    /\ [][NextTerm]_vars
    /\ WF_cyc(IsCyclicStep)
    /\ WF_tpc(NextTree)

----------------------------------------------------------------------------
(* Graph theory the properties are stated in, independent of the code.     *)

\* The nodes reachable from the set S along the adjacency of g.
RECURSIVE Reach(_, _)
Reach(g, S) ==
    LET T == S \cup UNION { g[v] \cap DOMAIN g : v \in S }
    IN  IF T = S THEN S ELSE Reach(g, T)

\* The connected components of g, as sets of nodes.
Components(g) == { Reach(g, {v}) : v \in DOMAIN g }

\* The undirected edges of g, an edge being the set of its endpoints.
UEdges(g) == UNION { { {a, b} : b \in g[a] } : a \in DOMAIN g }

\* g has a cycle: a self-loop, or a component with at least as many edges
\* as nodes.
HasCycle(g) ==
    \/ \E v \in DOMAIN g : v \in g[v]
    \/ \E C \in Components(g) :
          Cardinality({e \in UEdges(g) : e \subseteq C}) >= Cardinality(C)

\* g is connected: it has exactly one component.
Connected(g) == Cardinality(Components(g)) = 1

\* Every entry of g is a node of g and the adjacency is symmetric.
Symmetric(g) ==
    \A s \in DOMAIN g : \A t \in DOMAIN g : (t \in g[s]) <=> (s \in g[t])

InRangeEntries(g) == \A s \in DOMAIN g : g[s] \subseteq DOMAIN g

Returned1(op) == last.op = op /\ cyc.pc = "idle" /\ ~fault

\* The elements of a sequence.
Elems(q) == { q[i] : i \in DOMAIN q }

\* A sequence without repeated elements.
NoRepeat(q) == \A i \in DOMAIN q : \A j \in DOMAIN q : q[i] = q[j] => i = j

\* The adjacency of g as a set of ordered pairs (a, b): b is in the set of a.
Adj(g) == UNION { { <<a, b>> : b \in g[a] } : a \in DOMAIN g }

----------------------------------------------------------------------------
(* Properties *)

\* C1: when is_cyclic() returns on a graph built by in-range calls, under
\* every neighbour iteration order, it returns true iff the graph has a
\* cycle; is_acyclic() returns the negation; neither panics.
C1_IsCyclicExact ==
    /\ last.op \in {"is_cyclic", "is_acyclic"} => ~fault
    /\ Returned1("is_cyclic") => ret.bool = HasCycle(nodes)
    /\ Returned1("is_acyclic") => ret.bool = ~HasCycle(nodes)

\* is_cyclic() has returned true on a graph without self-loops.
C1_Witness ==
    /\ Returned1("is_cyclic")
    /\ ret.bool = TRUE
    /\ \A v \in DOMAIN nodes : v \notin nodes[v]

\* C2: while is_cyclic() runs and when it has returned, true or false, the
\* caller's graph is the graph it was when the call started.
C2_CallerGraphUnmodified ==
    last.op \in {"is_cyclic", "is_acyclic"} =>
        /\ nodes = pre
        /\ size(nodes) = size(pre)
        /\ \A v \in DOMAIN pre : get_neighbours(nodes, v).value = pre[v]

\* is_cyclic() has walked a whole graph that has edges and returned false.
C2_Witness ==
    /\ Returned1("is_cyclic")
    /\ ret.bool = FALSE
    /\ Cardinality(UEdges(nodes)) >= 2

\* C3: after any sequence of in-range mutator calls adjecent(s,t) equals
\* adjecent(t,s) for all nodes s, t.
C3_Symmetry ==
    ~fault =>
        \A s \in DOMAIN nodes : \A t \in DOMAIN nodes :
            adjecent(nodes, s, t).value = adjecent(nodes, t, s).value

\* An edge between two distinct nodes is left after a remove_edge.
C3_Witness ==
    /\ Returned1("remove_edge")
    /\ nodes # pre
    /\ \E s \in DOMAIN nodes : \E t \in nodes[s] : s # t

\* C6 (as claimed): a call of get_neighbours, add_edge, remove_edge,
\* remove_edges or adjecent with an index argument >= size() panics.
C6_OutOfRangeFaults ==
    ( /\ last.op \in {"get_neighbours", "add_edge", "remove_edge",
                      "remove_edges", "adjecent"}
      /\ \E i \in DOMAIN last.args : last.args[i] >= size(pre) )
    => fault

\* C7 (as claimed): a mutator that panics leaves the graph as it was before
\* the call, with every entry in range and the adjacency symmetric.
C7_NoPartialFailure ==
    (fault /\ last.op \in {"add_edge", "remove_edge", "remove_edges"}) =>
        /\ nodes = pre
        /\ InRangeEntries(nodes)
        /\ Symmetric(nodes)

\* C8: an add_edge(s,t) that directly follows add_edge(s,t) changes no
\* neighbour set and not edges(); a remove_edge(s,t) of two nodes that are
\* not adjacent changes no neighbour set.
C8_Idempotence ==
    [][ /\ ( /\ ~fault'
             /\ last.op = "add_edge" /\ last'.op = "add_edge"
             /\ last'.args = last.args )
           => (nodes' = nodes /\ edges(nodes') = edges(nodes))
        /\ ( /\ ~fault'
             /\ last'.op = "remove_edge"
             /\ ~adjecent(nodes, last'.args[1], last'.args[2]).value )
           => nodes' = nodes ]_vars

\* An add_edge(s,t) has run on a graph that already had the edge and has
\* another edge as well.
C8_Witness ==
    /\ Returned1("add_edge")
    /\ last.args[2] \in pre[last.args[1]]
    /\ last.args[1] \in pre[last.args[2]]
    /\ Cardinality(UEdges(nodes)) >= 2

\* C9: remove_edges(n) with n in range does not panic, leaves n without
\* neighbours and in no neighbour set, and takes exactly n out of the set of
\* each former neighbour.
C9_RemoveEdgesIsolates ==
    (last.op = "remove_edges" /\ last.args[1] < size(pre)) =>
        LET n == last.args[1]
        IN  /\ ~fault
            /\ nodes[n] = {}
            /\ \A m \in DOMAIN nodes : n \notin nodes[m]
            /\ \A m \in pre[n] \ {n} : nodes[m] = pre[m] \ {n}

\* remove_edges(n) has run on a node with a self-loop and two other
\* neighbours.
C9_Witness ==
    /\ Returned1("remove_edges")
    /\ last.args[1] \in pre[last.args[1]]
    /\ Cardinality(pre[last.args[1]]) >= 3

\* C10: edges() is the set of pairs (a,b) with a <= b and a, b adjacent, a
\* self-loop on s being (s,s), and count_edges() is the number of distinct
\* undirected edges.
C10_EdgesCanonical ==
    ~fault =>
        LET canon == { p \in (DOMAIN nodes) \X (DOMAIN nodes) :
                         p[1] <= p[2] /\ p[2] \in nodes[p[1]] }
        IN  /\ edges(nodes) = canon
            /\ count_edges(nodes) = Cardinality(UEdges(nodes))
            /\ Returned1("edges") => ret.pairs = canon
            /\ Returned1("count_edges") => ret.int = Cardinality(UEdges(nodes))

\* edges() has returned a self-loop and an edge between two nodes.
C10_Witness ==
    /\ Returned1("edges")
    /\ \E p \in ret.pairs : p[1] = p[2]
    /\ \E p \in ret.pairs : p[1] < p[2]

\* C4: for a connected source graph on N nodes, under every shuffle,
\* make_spanning_tree returns a graph of size N with exactly N-1 edges, no
\* cycle, and only edges of the source's edges().
C4_SpanningTree ==
    (tpc = "done" /\ Connected(src)) =>
        /\ size(h) = size(src)
        /\ Cardinality(UEdges(h)) = size(src) - 1
        /\ count_edges(h) = size(src) - 1
        /\ ~HasCycle(h)
        /\ edges(h) \subseteq edges(src)

\* make_spanning_tree has returned for a connected source on four nodes
\* that has a cycle and no self-loop, so an edge between two nodes was
\* rejected.
C4_Witness ==
    /\ tpc = "done"
    /\ Connected(src)
    /\ size(src) = 4
    /\ HasCycle(src)
    /\ \A v \in DOMAIN src : v \notin src[v]

\* C5: for a disconnected source graph, under every shuffle, the result of
\* make_spanning_tree has no cycle and has (node count - number of
\* components of the source) edges.
C5_SpanningForest ==
    (tpc = "done" /\ ~Connected(src)) =>
        /\ ~HasCycle(h)
        /\ Cardinality(UEdges(h)) = size(src) - Cardinality(Components(src))
        /\ count_edges(h) = size(src) - Cardinality(Components(src))

\* make_spanning_tree has returned for a triangle beside an isolated node.
C5_Witness ==
    /\ tpc = "done"
    /\ Cardinality(Components(src)) = 2
    /\ \E C \in Components(src) :
          /\ Cardinality(C) = 3
          /\ Cardinality({e \in UEdges(src) : e \subseteq C /\ Cardinality(e) = 2}) = 3

\* C11: for N >= 3, on the graph built by add_edge(i, i+1) for i in 0..N-1,
\* and on every prefix of that construction, is_acyclic() is true and
\* is_cyclic() false; once add_edge(N-1, 0) has been added is_cyclic() is
\* true and is_acyclic() false.
C11_NCycle ==
    LET closed == (size(nodes) - 1) \in nodes[0]
    IN  /\ ~fault
        /\ Returned1("is_cyclic") => ret.bool = closed
        /\ Returned1("is_acyclic") => ret.bool = ~closed

\* is_cyclic() has returned true on the closed cycle over five or more nodes.
C11_Witness ==
    /\ Returned1("is_cyclic")
    /\ ret.bool = TRUE
    /\ size(nodes) >= 5
    /\ count_edges(nodes) = size(nodes)

\* C12: right after add_edge(i, i) with i in range every run of is_cyclic(),
\* whatever the iteration order, returns true; and whenever is_cyclic() has
\* returned on a graph that has a self-loop, on any node, it returned true.
C12_SelfLoop ==
    /\ (Returned1("add_edge") /\ last.args[1] = last.args[2]) =>
          is_cyclic(nodes) = {[panic |-> FALSE, value |-> TRUE]}
    /\ (Returned1("is_cyclic") /\ \E i \in DOMAIN nodes : i \in nodes[i]) =>
          ret.bool = TRUE

\* add_edge(2, 2) has run on a graph where node 0 has the neighbour 1 and no
\* self-loop, so the traversal starts away from the loop.
C12_Witness ==
    /\ Returned1("add_edge")
    /\ last.args = <<2, 2>>
    /\ 1 \in nodes[0]
    /\ 0 \notin nodes[0]
    /\ 1 \notin nodes[1]

\* C13: for every N >= 0, N = 0 included, Graph::new(N) has size() = N and
\* only empty neighbour sets, every run of is_cyclic() on it returns false
\* and of is_acyclic() true, and a stepped call on a graph without edges
\* returns the same.
C13_FreshAcyclic ==
    /\ last.op = "new" =>
          /\ size(nodes) = last.args[1]
          /\ DOMAIN nodes = 0..(last.args[1] - 1)
          /\ \A v \in DOMAIN nodes : get_neighbours(nodes, v).value = {}
          /\ is_cyclic(nodes) = {[panic |-> FALSE, value |-> FALSE]}
          /\ is_acyclic(nodes) = {[panic |-> FALSE, value |-> TRUE]}
    /\ (Returned1("is_acyclic") /\ \A v \in DOMAIN nodes : nodes[v] = {}) =>
          ret.bool = TRUE
    /\ (Returned1("is_cyclic") /\ \A v \in DOMAIN nodes : nodes[v] = {}) =>
          ret.bool = FALSE

\* is_acyclic() has returned true on Graph::new(0).
C13_Witness ==
    /\ Returned1("is_acyclic")
    /\ size(nodes) = 0
    /\ ret.bool = TRUE

\* C14: in make_spanning_tree, at every iteration boundary and at return the
\* result has no cycle and only edges of the source taken so far; a result
\* with a cycle exists only between add_edge and the check that follows it.
C14_LoopInvariant ==
    LET taken == edges(src) \ todo
    IN  /\ tpc # "panic"
        /\ tpc \in {"loop", "done"} => (~HasCycle(h) /\ edges(h) \subseteq taken)
        /\ tpc = "added" => (edges(h) \subseteq taken /\ ~HasCycle(h0))
        /\ HasCycle(h) => tpc = "added"

\* The edge just added, between two distinct nodes, has closed a cycle.
C14_Witness ==
    /\ tpc = "added"
    /\ HasCycle(h)
    /\ cur[1] # cur[2]

\* C15: when make_spanning_tree returns, two nodes are connected in the
\* result iff they are connected in the source; an edge is removed again
\* exactly when it is a self-loop or its endpoints were already connected in
\* the result when it was tried.
C15_ComponentPreservation ==
    [][ /\ tpc' = "done" => Components(h') = Components(src')
        /\ (tpc = "added" /\ tpc' = "loop") =>
              ( (h' # h) <=>
                (cur[1] = cur[2] \/ cur[2] \in Reach(h0, {cur[1]})) ) ]_vars

\* make_spanning_tree has returned for a source of two components of two
\* nodes each.
C15_Witness ==
    /\ tpc = "done"
    /\ size(src) = 4
    /\ \A C \in Components(src) : Cardinality(C) = 2

\* C18: a rejection in make_spanning_tree restores the result graph to what
\* it was before add_edge(s,t), keeping every edge accepted before; the edge
\* tried was not in the result before it was tried; an accepted edge stays.
C18_ExactRollback ==
    [][ /\ (tpc = "loop" /\ tpc' = "added") =>
              (cur' \notin edges(h) /\ edges(h') = edges(h) \cup {cur'})
        /\ (tpc = "added" /\ tpc' = "loop") =>
              \/ h' = h
              \/ (h' = h0 /\ edges(h0) \subseteq edges(h')
                          /\ edges(h') = edges(h) \ {cur}) ]_vars

\* An edge between two distinct nodes has just been rejected while the
\* result holds edges accepted before.
C18_Witness ==
    /\ tpc = "loop"
    /\ todo # edges(src)
    /\ h = h0
    /\ cur[1] # cur[2]
    /\ edges(h) # {}

\* C17: while is_cyclic runs no neighbour set of the working copy holds a
\* node popped earlier and a popped node has no neighbours left, so the
\* node popped next does not see the node it was discovered from; a visited
\* node met in the snapshot is the popped node itself or is still on open.
C17_NoFalseRevisit ==
    cyc.pc \in {"for", "while", "neigh"} =>
        LET popped == Elems(cyc.pops)
        IN  /\ \A v \in DOMAIN cyc.g : cyc.g[v] \cap popped = {}
            /\ cyc.pc = "neigh" =>
                  LET current == cyc.pops[Len(cyc.pops)]
                  IN  /\ cyc.neighbours \cap (popped \ {current}) = {}
                      /\ \A n \in cyc.neighbours \cap cyc.visited :
                            n = current \/ n \in Elems(cyc.open)

\* The node on top of open is about to be popped and, in the caller's
\* graph, is adjacent to a node popped before.
C17_Witness ==
    /\ cyc.pc = "while"
    /\ cyc.open # <<>>
    /\ nodes[cyc.open[Len(cyc.open)]] \cap Elems(cyc.pops) # {}

\* C19: add_edge(s,t) and remove_edge(s,t) with in-range arguments set,
\* respectively clear, the memberships (s,t) and (t,s) and change no other
\* adjacency pair; remove_edges(n) changes only pairs with n in them; no
\* call, failing or not, changes size().
C19_MutatorFrame ==
    [][ /\ size(nodes') = size(nodes)
        /\ DOMAIN nodes' = DOMAIN nodes
        /\ (~fault' /\ last'.op \in {"add_edge", "remove_edge"}) =>
              LET st == {<<last'.args[1], last'.args[2]>>,
                         <<last'.args[2], last'.args[1]>>}
              IN  /\ Adj(nodes') \ st = Adj(nodes) \ st
                  /\ last'.op = "add_edge" => st \subseteq Adj(nodes')
                  /\ last'.op = "remove_edge" => st \cap Adj(nodes') = {}
        /\ (~fault' /\ last'.op = "remove_edges") =>
              LET n == last'.args[1]
                  other(A) == { p \in A : p[1] # n /\ p[2] # n }
              IN  /\ other(Adj(nodes')) = other(Adj(nodes))
                  /\ Adj(nodes') \subseteq Adj(nodes) ]_vars

\* remove_edges(n) has removed edges and left an edge that does not touch n.
C19_Witness ==
    /\ Returned1("remove_edges")
    /\ nodes # pre
    /\ \E p \in Adj(nodes) : p[1] # last.args[1] /\ p[2] # last.args[1]

\* C16: a running is_cyclic has pushed exactly the visited nodes, each once,
\* and popped no node twice, and it returns without a panic;
\* make_spanning_tree takes each source edge once, checks it once, cannot
\* panic and returns, for every source, N = 0 and N = 1 included.
C16_Termination ==
    /\ [](cyc.pc # "idle" =>
            /\ NoRepeat(cyc.pushes)
            /\ NoRepeat(cyc.pops)
            /\ Elems(cyc.pushes) = cyc.visited
            /\ Elems(cyc.pops) \cup Elems(cyc.open) = cyc.visited
            /\ Len(cyc.pops) + Len(cyc.open) = Len(cyc.pushes)
            /\ Len(cyc.pushes) <= size(cyc.g))
    /\ [](last.op \in {"is_cyclic", "is_acyclic"} => ~fault)
    /\ (cyc.pc # "idle") ~> (cyc.pc = "idle")
    /\ [](tpc # "panic")
    /\ [][ /\ (tpc = "call" /\ tpc' # "call") => (tpc' = "loop" /\ todo' = edges(src))
           /\ (tpc = "loop" /\ tpc' = "added") => (cur' \in todo /\ todo' = todo \ {cur'})
           /\ (tpc = "loop" /\ tpc' = "done") => todo = {}
           /\ tpc = "loop" => tpc' \in {"loop", "added", "done"}
           /\ tpc = "added" => (tpc' \in {"added", "loop"} /\ todo' = todo)
           /\ tpc = "done" => tpc' = "done" ]_vars
    /\ (tpc = "call") ~> (tpc = "done")

\* is_cyclic is about to return false after it has pushed and popped each
\* node of a graph with edges once.
C16_Witness ==
    /\ cyc.pc = "for"
    /\ cyc.node = size(cyc.g)
    /\ Len(cyc.pops) = size(cyc.g)
    /\ size(cyc.g) >= 3
    /\ UEdges(nodes) # {}

====
